---- MODULE Spec2Model ----
(***************************************************************************)
(* SNAFU, a Python version manager for Windows: the command layer of       *)
(* src/snafu/__main__.py (install, uninstall, upgrade, activate,           *)
(* deactivate, link) over the install state, the persisted active names    *)
(* and the shared scripts directory, and the version selection of          *)
(* src/installers/build.py (get_latest_python_name).                       *)
(*                                                                         *)
(* snafu.operations, snafu.versions and snafu.configs are imported by      *)
(* __main__.py but their code is not part of the sources at hand: what     *)
(* they do is modelled from the specification (sections 3 and 4) and is    *)
(* marked "from the specification" below.  The commands where and list     *)
(* only read the state and are left out.                                   *)
(***************************************************************************)
EXTENDS Integers, Sequences, FiniteSets, TLC

VARIABLES
    installation,   \* version name -> installed version tuple, <<>> when not installed
    active_names,   \* the persisted active set: a sequence of version names
    scripts,        \* the shared scripts directory: command name -> file content
    linked,         \* versions whose own pythonX.Y commands are linked
    pc,             \* invocation -> "idle", "deactivated" (after line 120) or
                    \* "persisted" (in line 121, the names written, no script yet)
    pending,        \* invocation -> the versions activate is about to publish
    last,           \* what the most recent command did: its log and exit code
    scenario,       \* the position in a run of given commands (the lifecycle
                    \* run, two activate in a row, two invocations at once)
    definitions,    \* build.py: the version definitions read from snafu/versions
    latest_name,    \* build.py: the result of get_latest_python_name
    once            \* what the first of two activate commands in a row left

mainVars == <<installation, active_names, scripts, linked, pc, pending, last>>
buildVars == <<definitions, latest_name>>
vars == <<installation, active_names, scripts, linked, pc, pending, last,
          scenario, definitions, latest_name, once>>

(***************************************************************************)
(* Bounds of the model.                                                    *)
(***************************************************************************)
\* The most version arguments one activate command is given.
MaxArgs == 2
\* The most versions one activate command is given in the runs with longer
\* active sets.
MaxActive == 3
\* The most definition files get_latest_python_name reads.
MaxDefs == 3

(***************************************************************************)
(* Python's ordering of lists and tuples of integers: lexicographic, a     *)
(* proper prefix being smaller.                                            *)
(***************************************************************************)
RECURSIVE TupleLess(_, _)
TupleLess(a, b) ==
    IF b = <<>> THEN FALSE
    ELSE IF a = <<>> THEN TRUE
    ELSE IF Head(a) < Head(b) THEN TRUE
    ELSE IF Head(a) > Head(b) THEN FALSE
    ELSE TupleLess(Tail(a), Tail(b))

TupleGeq(a, b) == ~TupleLess(a, b)

(***************************************************************************)
(* build.py: get_latest_python_name.  A definition is the JSON data of one *)
(* file of snafu/versions with its stem as name.                           *)
(***************************************************************************)
Definition(name, version_info) == [name |-> name, version_info |-> version_info]

\* The definition files the model draws from: pairs that share a version
\* tuple (a 64 and a 32 bit build), a two-digit minor, tuples of unequal
\* length, and two names of equal length for one tuple.
DefinitionFiles ==
    { Definition("3.5", <<3, 5, 4>>),
      Definition("3.6", <<3, 6, 3>>),
      Definition("3.6-32", <<3, 6, 3>>),
      Definition("3.6-64", <<3, 6, 3>>),
      Definition("3.10", <<3, 10>>),
      Definition("3.10-32", <<3, 10, 0>>) }

\* key=lambda d: (d['version_info'], -len(d['name'])), compared as Python
\* compares tuples: key(a) < key(b).
latest_key_less_shorter_loses(a, b) ==
    \/ TupleLess(a.version_info, b.version_info)
    \/ /\ a.version_info = b.version_info
       /\ Len(a.name) < Len(b.name)

latest_key_less(a, b) ==
    \/ TupleLess(a.version_info, b.version_info)
    \/ /\ a.version_info = b.version_info
       /\ (0 - Len(a.name)) < (0 - Len(b.name))

\* Python's max(iterable, key=...): the first element no later one exceeds.
RECURSIVE PyMax(_, _)
PyMax(best, rest) ==
    IF rest = <<>> THEN best
    ELSE IF latest_key_less(best, Head(rest)) THEN PyMax(Head(rest), Tail(rest))
    ELSE PyMax(best, Tail(rest))

\* latest_definition = max(definitions, key=...); return its name.
get_latest_python_name_of(defs) == PyMax(Head(defs), Tail(defs)).name

\* Sequences without repetition of at most n elements of S, none empty.
RECURSIVE DistinctSeqs(_, _)
DistinctSeqs(S, n) ==
    IF n = 0 THEN {}
    ELSE { <<x>> : x \in S } \cup
         UNION { { <<x>> \o t : t \in { u \in DistinctSeqs(S, n - 1) :
                                          \A i \in 1..Len(u) : u[i] # x } } :
                 x \in S }

BuildInit ==
    /\ definitions \in DistinctSeqs(DefinitionFiles, MaxDefs)
    /\ latest_name = ""

get_latest_python_name ==
    /\ definitions # <<>>
    /\ latest_name = ""
    /\ latest_name' = get_latest_python_name_of(definitions)
    /\ UNCHANGED definitions

(***************************************************************************)
(* The version catalog (snafu.versions; from the specification, 4.1):      *)
(* static definitions keyed by name, each with a version tuple.            *)
(***************************************************************************)
Names == {"3.5", "3.6", "3.6-32"}

version_info(name) ==
    CASE name = "3.5" -> <<3, 5, 4>>
      [] name = "3.6" -> <<3, 6, 3>>
      [] name = "3.6-32" -> <<3, 6, 3>>

\* A query that is no definition name is a version constraint: the leading
\* part of a version tuple.
Constraints == {"3", "2"}

constraint_tuple(query) ==
    CASE query = "3" -> <<3>>
      [] query = "2" -> <<2>>

Queries == Names \cup Constraints

NotFound == "NotFound"

RECURSIVE IsPrefix(_, _)
IsPrefix(a, b) ==
    IF a = <<>> THEN TRUE
    ELSE IF b = <<>> THEN FALSE
    ELSE Head(a) = Head(b) /\ IsPrefix(Tail(a), Tail(b))

\* VersionCatalog.resolve: an exact name, else the definition that maximises
\* (versionInfo, -length(name)) among those satisfying the constraint, else
\* NotFoundError.
get_version(query) ==
    IF query \in Names THEN query
    ELSE LET matching == { n \in Names :
                             IsPrefix(constraint_tuple(query), version_info(n)) }
         IN  IF matching = {} THEN NotFound
             ELSE CHOOSE n \in matching :
                    \A m \in matching \ {n} :
                        latest_key_less(Definition(m, version_info(m)),
                                        Definition(n, version_info(n)))

(***************************************************************************)
(* Installation status (from the specification, 4.2): the probe of the     *)
(* install root and of its version marker.                                 *)
(***************************************************************************)
NotInstalled == <<>>

\* The version tuples an install root of `name` may hold: an older patch
\* release, the catalog's, a newer one.
InstallableInfos(name) ==
    IF name = "3.6" THEN { <<3, 6, 1>>, <<3, 6, 3>>, <<3, 6, 4>> }
    ELSE { version_info(name) }

is_installed(name) == installation[name] # NotInstalled

get_installation_version_info(name) == installation[name]

\* operations.check_status without its exit: whether the probed status is
\* the expected one.
check_status(name, expection) == is_installed(name) = expection

(***************************************************************************)
(* The shared scripts directory (from the specification, 3 and 4.5).       *)
(***************************************************************************)
Commands == {"pip", "tox", "flake8", "black"}

NoFile == ""

\* The scripts an installed version has, by name.
ScriptNames(name) ==
    CASE name = "3.5" -> {"pip", "tox"}
      [] name = "3.6" -> {"pip", "flake8"}
      [] name = "3.6-32" -> {"pip", "tox"}

\* The bytes of version `name`'s script `command`; the two 3.6 builds ship
\* the same pip.
Content(name, command) ==
    CASE command = "pip" /\ name = "3.5" -> "pip 8"
      [] command = "pip" /\ name # "3.5" -> "pip 9"
      [] command = "tox" -> "tox of " \o name
      [] command = "flake8" -> "flake8 of " \o name
      [] OTHER -> "black of " \o name

\* version.find_script_path: the scripts found under the install root.
find_script_path(name) == IF is_installed(name) THEN ScriptNames(name) ELSE {}

EmptyDir == [c \in Commands |-> NoFile]

Entries(dir) == { c \in Commands : dir[c] # NoFile }

\* ShimPublisher.rebuild, one version: a later provider of a name that is
\* already there is skipped.
publish_version_overwriting(acc, name) ==
    [ dir |-> [c \in Commands |->
                 IF c \in find_script_path(name)
                 THEN Content(name, c) ELSE acc.dir[c]],
      written |-> acc.written \cup
                  { <<name, c>> : c \in find_script_path(name) } ]

publish_version(acc, name) ==
    [ dir |-> [c \in Commands |->
                 IF acc.dir[c] = NoFile /\ c \in find_script_path(name)
                 THEN Content(name, c) ELSE acc.dir[c]],
      written |-> acc.written \cup
                  { <<name, c>> : c \in { d \in find_script_path(name) :
                                            acc.dir[d] = NoFile } } ]

RECURSIVE publish_all(_, _)
publish_all(acc, versions) ==
    IF versions = <<>> THEN acc
    ELSE publish_all(publish_version(acc, Head(versions)), Tail(versions))

\* ShimPublisher.rebuild: the directory is cleared and regenerated from
\* empty, the versions in priority order.
rebuild_in_reverse(versions) ==
    publish_all([dir |-> EmptyDir, written |-> {}],
                [i \in 1..Len(versions) |-> versions[Len(versions) + 1 - i]])

rebuild(versions) == publish_all([dir |-> EmptyDir, written |-> {}], versions)

\* ActiveSet.remove: the set difference, in the previous order.
remove_names_reordering(names, removed) ==
    LET left == SelectSeq(names, LAMBDA n : n \notin removed)
    IN  [i \in 1..Len(left) |-> left[Len(left) + 1 - i]]

remove_names(names, removed) == SelectSeq(names, LAMBDA n : n \notin removed)

\* CommandLinker.publish (operations.publish_script): an identical target is
\* left alone; a differing one is replaced when overwrite is set.
publish_script(dir, name, command, overwrite) ==
    IF dir[command] = Content(name, command) THEN [dir |-> dir, written |-> {}]
    ELSE IF dir[command] # NoFile /\ ~overwrite THEN [dir |-> dir, written |-> {}]
    ELSE [dir |-> [dir EXCEPT ![command] = Content(name, command)],
          written |-> { <<name, command>> }]

(***************************************************************************)
(* The commands of src/snafu/__main__.py.                                  *)
(***************************************************************************)
\* The invocations of the tool that may be under way.
Invocations == {1, 2}

AllIdle == \A p \in Invocations : pc[p] = "idle"

\* The log of one command: what it called, what it wrote to the scripts
\* directory, and how it ended (exit -1: no exit code yet, or killed).
Log(cmd, args, force, events, written, exit, error) ==
    [cmd |-> cmd, args |-> args, force |-> force, events |-> events,
     written |-> written, exit |-> exit, error |-> error]

\* The log of a process that has run no command yet.
NoLog == Log("", <<>>, FALSE, <<>>, {}, 0, "")

\* Nothing recorded yet of a first activate command.
NoRun == [args |-> <<>>, names |-> <<>>, dir |-> EmptyDir]

\* How the download and the installer child process of a command end.
Outcomes == {"ok", "download_failed", "installer_failed"}

\* Where the installer or uninstaller comes from: --file, the uninstaller
\* cached at install time, or a download.
Sources == {"file", "cache", "download"}

Fetch(source) == IF source = "download" THEN <<"download">> ELSE <<>>

ArgLists == { <<>> } \cup UNION { [1..n -> Queries] : n \in 1..MaxArgs }

Init ==
    /\ installation \in { f \in [Names -> UNION { InstallableInfos(n) : n \in Names }
                                           \cup {NotInstalled}] :
                            \A n \in Names :
                                f[n] \in InstallableInfos(n) \cup {NotInstalled} }
    /\ active_names = <<>>
    /\ scripts = EmptyDir
    /\ linked = { n \in Names : installation[n] # NotInstalled }
    /\ pc = [p \in Invocations |-> "idle"]
    /\ pending = [p \in Invocations |-> <<>>]
    /\ last = NoLog
    /\ scenario = [stage |-> 0, version |-> ""]
    /\ definitions = <<>>
    /\ latest_name = ""
    /\ once = NoRun

\* install, lines 34-36: check_status(version, False, on_exit=link_commands).
install_precondition_unchecked(v) == TRUE

install_precondition(v) == check_status(v, FALSE)

\* install, line 44, with a failed installer run a second time.
install_retrying(version, source, outcome) ==
    LET v == get_version(version)
        args == <<version>>
    IN
    /\ source # "cache"
    /\ source = "file" => outcome # "download_failed"
    /\ IF v = NotFound THEN
           /\ last' = Log("install", args, FALSE, <<>>, {}, 1, "NotFoundError")
           /\ UNCHANGED <<installation, linked>>
       ELSE IF ~install_precondition(v) THEN
           /\ linked' = linked \cup {v}
           /\ last' = Log("install", args, FALSE, <<"on_exit", "link_commands">>,
                          {}, 1, "StateMismatchError")
           /\ UNCHANGED installation
       ELSE IF outcome = "download_failed" THEN
           /\ last' = Log("install", args, FALSE, <<"download">>, {}, 1,
                          "DownloadError")
           /\ UNCHANGED <<installation, linked>>
       ELSE IF outcome = "installer_failed" THEN
           /\ last' = Log("install", args, FALSE,
                          Fetch(source) \o <<"installer", "installer">>,
                          {}, 1, "InstallerExecutionError")
           /\ UNCHANGED <<installation, linked>>
       ELSE
           /\ installation' = [installation EXCEPT ![v] = version_info(v)]
           /\ linked' = linked \cup {v}
           /\ last' = Log("install", args, FALSE,
                          Fetch(source) \o <<"installer", "link_commands">>,
                          {}, 0, "")
    /\ UNCHANGED <<active_names, scripts, pc, pending>>

install(version, source, outcome) ==
    LET v == get_version(version)
        args == <<version>>
    IN
    /\ source # "cache"
    /\ source = "file" => outcome # "download_failed"
    /\ IF v = NotFound THEN
           /\ last' = Log("install", args, FALSE, <<>>, {}, 1, "NotFoundError")
           /\ UNCHANGED <<installation, linked>>
       ELSE IF ~install_precondition(v) THEN
           /\ linked' = linked \cup {v}
           /\ last' = Log("install", args, FALSE, <<"on_exit", "link_commands">>,
                          {}, 1, "StateMismatchError")
           /\ UNCHANGED installation
       ELSE IF outcome = "download_failed" THEN
           /\ last' = Log("install", args, FALSE, <<"download">>, {}, 1,
                          "DownloadError")
           /\ UNCHANGED <<installation, linked>>
       ELSE IF outcome = "installer_failed" THEN
           /\ last' = Log("install", args, FALSE, Fetch(source) \o <<"installer">>,
                          {}, 1, "InstallerExecutionError")
           /\ UNCHANGED <<installation, linked>>
       ELSE
           /\ installation' = [installation EXCEPT ![v] = version_info(v)]
           /\ linked' = linked \cup {v}
           /\ last' = Log("install", args, FALSE,
                          Fetch(source) \o <<"installer", "link_commands">>,
                          {}, 0, "")
    /\ UNCHANGED <<active_names, scripts, pc, pending>>

\* uninstall, lines 57-59: check_status(version, True, on_exit=unlink_commands).
uninstall_precondition_unchecked(v) == TRUE

uninstall_precondition(v) == check_status(v, TRUE)

\* operations.update_active_versions(remove=[version]) (from the
\* specification, 4.4): the result is persisted; an empty result tears the
\* scripts directory down.
update_active_versions_skipped(names, dir, removed) ==
    [names |-> names, dir |-> dir]

update_active_versions(names, dir, removed) ==
    LET left == remove_names(names, removed)
    IN  [names |-> left, dir |-> IF left = <<>> THEN EmptyDir ELSE dir]

\* uninstall with line 60 moved after line 71: the version leaves the active
\* names only once the uninstaller has succeeded.
uninstall_deactivating_last(version, source, outcome) ==
    LET v == get_version(version)
        args == <<version>>
        updated == update_active_versions(active_names, scripts, {v})
    IN
    /\ source # "download" => outcome # "download_failed"
    /\ IF v = NotFound THEN
           /\ last' = Log("uninstall", args, FALSE, <<>>, {}, 1, "NotFoundError")
           /\ UNCHANGED <<installation, linked, active_names, scripts>>
       ELSE IF ~uninstall_precondition(v) THEN
           /\ linked' = linked \ {v}
           /\ last' = Log("uninstall", args, FALSE,
                          <<"on_exit", "unlink_commands">>, {}, 1,
                          "StateMismatchError")
           /\ UNCHANGED <<installation, active_names, scripts>>
       ELSE IF outcome = "download_failed" THEN
           /\ last' = Log("uninstall", args, FALSE, <<"download">>, {}, 1,
                          "DownloadError")
           /\ UNCHANGED <<installation, linked, active_names, scripts>>
       ELSE IF outcome = "installer_failed" THEN
           /\ last' = Log("uninstall", args, FALSE,
                          Fetch(source) \o <<"uninstaller">>,
                          {}, 1, "InstallerExecutionError")
           /\ UNCHANGED <<installation, linked, active_names, scripts>>
       ELSE
           /\ active_names' = updated.names
           /\ scripts' = updated.dir
           /\ installation' = [installation EXCEPT ![v] = NotInstalled]
           /\ linked' = linked \ {v}
           /\ last' = Log("uninstall", args, FALSE,
                          Fetch(source) \o <<"uninstaller", "update_active_versions",
                                             "unlink_commands">>,
                          {}, 0, "")
    /\ UNCHANGED <<pc, pending>>

uninstall(version, source, outcome) ==
    LET v == get_version(version)
        args == <<version>>
        updated == update_active_versions(active_names, scripts, {v})
    IN
    /\ source # "download" => outcome # "download_failed"
    /\ IF v = NotFound THEN
           /\ last' = Log("uninstall", args, FALSE, <<>>, {}, 1, "NotFoundError")
           /\ UNCHANGED <<installation, linked, active_names, scripts>>
       ELSE IF ~uninstall_precondition(v) THEN
           /\ linked' = linked \ {v}
           /\ last' = Log("uninstall", args, FALSE,
                          <<"on_exit", "unlink_commands">>, {}, 1,
                          "StateMismatchError")
           /\ UNCHANGED <<installation, active_names, scripts>>
       ELSE
           /\ active_names' = updated.names
           /\ scripts' = updated.dir
           /\ IF outcome = "download_failed" THEN
                  /\ last' = Log("uninstall", args, FALSE,
                                 <<"update_active_versions", "download">>, {}, 1,
                                 "DownloadError")
                  /\ UNCHANGED <<installation, linked>>
              ELSE IF outcome = "installer_failed" THEN
                  /\ last' = Log("uninstall", args, FALSE,
                                 <<"update_active_versions">> \o Fetch(source)
                                    \o <<"uninstaller">>,
                                 {}, 1, "InstallerExecutionError")
                  /\ UNCHANGED <<installation, linked>>
              ELSE
                  /\ installation' = [installation EXCEPT ![v] = NotInstalled]
                  /\ linked' = linked \ {v}
                  /\ last' = Log("uninstall", args, FALSE,
                                 <<"update_active_versions">> \o Fetch(source)
                                    \o <<"uninstaller", "unlink_commands">>,
                                 {}, 0, "")
    /\ UNCHANGED <<pc, pending>>

\* upgrade, lines 81-83: check_status(version, True, on_exit=link_commands).
upgrade_precondition(v) == check_status(v, TRUE)

\* upgrade, line 85: installation_vi >= version.version_info.
upgrade_up_to_date_when_newer(installation_vi, catalog_vi) ==
    TupleLess(catalog_vi, installation_vi)

upgrade_up_to_date(installation_vi, catalog_vi) ==
    TupleGeq(installation_vi, catalog_vi)

upgrade(version, source, outcome) ==
    LET v == get_version(version)
        args == <<version>>
    IN
    /\ source # "cache"
    /\ source = "file" => outcome # "download_failed"
    /\ IF v = NotFound THEN
           /\ last' = Log("upgrade", args, FALSE, <<>>, {}, 1, "NotFoundError")
           /\ UNCHANGED <<installation, linked>>
       ELSE IF ~upgrade_precondition(v) THEN
           /\ linked' = linked \cup {v}
           /\ last' = Log("upgrade", args, FALSE, <<"on_exit", "link_commands">>,
                          {}, 1, "StateMismatchError")
           /\ UNCHANGED installation
       ELSE IF upgrade_up_to_date(get_installation_version_info(v),
                                  version_info(v)) THEN
           /\ last' = Log("upgrade", args, FALSE, <<"up_to_date">>, {}, 0, "")
           /\ UNCHANGED <<installation, linked>>
       ELSE IF outcome = "download_failed" THEN
           /\ last' = Log("upgrade", args, FALSE, <<"download">>, {}, 1,
                          "DownloadError")
           /\ UNCHANGED <<installation, linked>>
       ELSE IF outcome = "installer_failed" THEN
           /\ last' = Log("upgrade", args, FALSE, Fetch(source) \o <<"installer">>,
                          {}, 1, "InstallerExecutionError")
           /\ UNCHANGED <<installation, linked>>
       ELSE
           /\ installation' = [installation EXCEPT ![v] = version_info(v)]
           /\ linked' = linked \cup {v}
           /\ last' = Log("upgrade", args, FALSE,
                          Fetch(source) \o <<"installer", "link_commands">>,
                          {}, 0, "")
    /\ UNCHANGED <<active_names, scripts, pc, pending>>

\* activate, lines 111-112: no argument means the persisted active names.
activate_names_reversed(args) ==
    IF args = <<>>
    THEN [i \in 1..Len(active_names) |-> active_names[Len(active_names) + 1 - i]]
    ELSE args

activate_names_as_given(args) == args

activate_names(args) == IF args = <<>> THEN active_names ELSE args

\* activate, lines 114-115: check_status(version, True) for every version.
activate_validated_last_only(versions) ==
    versions # <<>> => check_status(versions[Len(versions)], TRUE)

activate_validated(versions) ==
    \A i \in 1..Len(versions) : check_status(versions[i], TRUE)

\* activate, lines 111-120: resolve and validate every name, then
\* operations.deactivate() (the active names and the scripts directory are
\* cleared; from the specification, 3 and 4.5).
ActivateStart(p, args) ==
    LET names == activate_names(args)
        versions == [i \in 1..Len(names) |-> get_version(names[i])]
    IN
    /\ pc[p] = "idle"
    /\ IF \E i \in 1..Len(names) : versions[i] = NotFound THEN
           /\ last' = Log("activate", args, FALSE, <<>>, {}, 1, "NotFoundError")
           /\ UNCHANGED <<active_names, scripts, pc, pending>>
       ELSE IF ~activate_validated(versions) THEN
           /\ last' = Log("activate", args, FALSE, <<>>, {}, 1,
                          "StateMismatchError")
           /\ UNCHANGED <<active_names, scripts, pc, pending>>
       ELSE IF versions = <<>> THEN
           /\ last' = Log("activate", args, FALSE, <<>>, {}, 1,
                          "NoActiveVersions")
           /\ UNCHANGED <<active_names, scripts, pc, pending>>
       ELSE
           /\ active_names' = <<>>
           /\ scripts' = EmptyDir
           /\ pc' = [pc EXCEPT ![p] = "deactivated"]
           /\ pending' = [pending EXCEPT ![p] = versions]
           /\ last' = Log("activate", args, FALSE, <<"deactivate">>, {}, -1, "")
    /\ UNCHANGED <<installation, linked>>

\* activate, line 121, first half of operations.activate(versions) (from the
\* specification, 4.4): the full ordered list is persisted.
ActivatePersist(p) ==
    /\ pc[p] = "deactivated"
    /\ active_names' = pending[p]
    /\ pc' = [pc EXCEPT ![p] = "persisted"]
    /\ last' = [last EXCEPT !.events = @ \o <<"activate">>]
    /\ UNCHANGED <<installation, linked, scripts, pending>>

\* activate, line 121, second half of operations.activate(versions): the
\* scripts directory is rebuilt from the versions; the command ends.
ActivatePublish(p) ==
    LET built == rebuild(pending[p])
    IN
    /\ pc[p] = "persisted"
    /\ scripts' = built.dir
    /\ pc' = [pc EXCEPT ![p] = "idle"]
    /\ pending' = [pending EXCEPT ![p] = <<>>]
    /\ last' = [last EXCEPT !.written = built.written, !.exit = 0]
    /\ UNCHANGED <<installation, linked, active_names>>

\* The process of an activate command is killed between two of its steps.
Crash(p) ==
    /\ pc[p] # "idle"
    /\ pc' = [pc EXCEPT ![p] = "idle"]
    /\ pending' = [pending EXCEPT ![p] = <<>>]
    /\ last' = [last EXCEPT !.error = "Killed"]
    /\ UNCHANGED <<installation, linked, active_names, scripts>>

\* deactivate, lines 128-129: operations.deactivate().
deactivate ==
    /\ active_names' = <<>>
    /\ scripts' = EmptyDir
    /\ last' = Log("deactivate", <<>>, FALSE, <<"deactivate">>, {}, 0, "")
    /\ UNCHANGED <<installation, linked, pc, pending>>

\* link, lines 174-181: the first active version, in order, that has the
\* command; NotFound when none has.
RECURSIVE first_provider_from_the_end(_, _)
first_provider_from_the_end(names, command) ==
    IF names = <<>> THEN NotFound
    ELSE IF command \in find_script_path(get_version(names[Len(names)]))
         THEN get_version(names[Len(names)])
    ELSE first_provider_from_the_end(SubSeq(names, 1, Len(names) - 1), command)

RECURSIVE first_provider(_, _)
first_provider(names, command) ==
    IF names = <<>> THEN NotFound
    ELSE IF command \in find_script_path(get_version(Head(names)))
         THEN get_version(Head(names))
    ELSE first_provider(Tail(names), command)

\* link, lines 192-198: what is done about the target.
link_decision_without_comparison(exists, force, identical) ==
    IF exists /\ ~force THEN "conflict" ELSE "publish"

link_decision_ignoring_force(exists, force, identical) ==
    IF exists THEN (IF identical THEN "return" ELSE "conflict") ELSE "publish"

link_decision(exists, force, identical) ==
    IF exists /\ ~force
    THEN (IF identical THEN "return" ELSE "conflict")
    ELSE "publish"

link(command, force) ==
    LET version == first_provider(active_names, command)
        args == <<command>>
        exists == scripts[command] # NoFile
        identical == scripts[command] = Content(version, command)
        decision == link_decision(exists, force, identical)
        published == publish_script(scripts, version, command, TRUE)
    IN
    /\ IF version = NotFound THEN
           /\ last' = Log("link", args, force, <<>>, {}, 1, "NotFoundError")
           /\ UNCHANGED scripts
       ELSE IF decision = "return" THEN
           /\ last' = Log("link", args, force, <<>>, {}, 0, "")
           /\ UNCHANGED scripts
       ELSE IF decision = "conflict" THEN
           /\ last' = Log("link", args, force, <<>>, {}, 1, "ConflictError")
           /\ UNCHANGED scripts
       ELSE
           /\ scripts' = published.dir
           /\ last' = Log("link", args, force, <<"publish_script">>,
                          published.written, 0, "")
    /\ UNCHANGED <<installation, linked, active_names, pc, pending>>

(***************************************************************************)
(* One invocation at a time (the specification, 5): a command starts when  *)
(* no other is under way.  The invocation is numbered 1.                   *)
(***************************************************************************)
\* What the commands of __main__.py never touch.
Frame == UNCHANGED <<scenario, definitions, latest_name, once>>

\* No command is under way and the log of the previous one is gone.
Ready == AllIdle /\ last = NoLog

\* The process of a finished (or killed) command is gone, and its log and
\* exit code with it: the next command starts with an empty log.
Exit ==
    /\ AllIdle
    /\ last # NoLog
    /\ last' = NoLog
    /\ UNCHANGED <<installation, linked, active_names, scripts, pc, pending>>

Next ==
    \/ \E version \in Queries, source \in Sources, outcome \in Outcomes :
           Ready /\ install(version, source, outcome) /\ Frame
    \/ \E version \in Queries, source \in Sources, outcome \in Outcomes :
           Ready /\ uninstall(version, source, outcome) /\ Frame
    \/ \E version \in Queries, source \in Sources, outcome \in Outcomes :
           Ready /\ upgrade(version, source, outcome) /\ Frame
    \/ \E args \in ArgLists : Ready /\ ActivateStart(1, args) /\ Frame
    \/ Ready /\ deactivate /\ Frame
    \/ \E command \in Commands, force \in BOOLEAN :
           Ready /\ link(command, force) /\ Frame
    \/ \E p \in Invocations : ActivatePersist(p) /\ Frame
    \/ \E p \in Invocations : ActivatePublish(p) /\ Frame
    \/ Exit /\ Frame

Spec == Init /\ [][Next]_vars

\* The same, with the process killed at any point of an activate command.
Kill == \E p \in Invocations : Crash(p) /\ Frame

NextCrash == Next \/ Kill

SpecCrash == Init /\ [][NextCrash]_vars

(***************************************************************************)
(* The end-to-end run: install V, activate V, deactivate, uninstall V,     *)
(* uninstall V again, the installers succeeding.  scenario.stage counts    *)
(* the commands of the run that have completed.                            *)
(***************************************************************************)
Stage(n) == scenario.stage = n

Advance == scenario' = [scenario EXCEPT !.stage = @ + 1]

BuildFrame == UNCHANGED <<definitions, latest_name, once>>

LifecycleStart ==
    /\ Stage(0) /\ scenario.version = ""
    /\ \E v \in Names :
           /\ installation[v] = NotInstalled
           /\ scenario' = [scenario EXCEPT !.version = v]
    /\ UNCHANGED mainVars /\ BuildFrame

LifecycleInstall ==
    /\ Stage(0) /\ scenario.version # "" /\ Ready
    /\ \E source \in Sources : install(scenario.version, source, "ok")
    /\ Advance /\ BuildFrame

LifecycleActivate ==
    /\ Stage(1)
    /\ \/ Ready /\ ActivateStart(1, <<scenario.version>>) /\ UNCHANGED scenario
       \/ ActivatePersist(1) /\ UNCHANGED scenario
       \/ ActivatePublish(1) /\ Advance
    /\ BuildFrame

LifecycleDeactivate ==
    /\ Stage(2) /\ Ready
    /\ deactivate
    /\ Advance /\ BuildFrame

LifecycleUninstall ==
    /\ Stage(3) /\ Ready
    /\ \E source \in Sources : uninstall(scenario.version, source, "ok")
    /\ Advance /\ BuildFrame

LifecycleUninstallAgain ==
    /\ Stage(4) /\ Ready
    /\ \E source \in Sources, outcome \in Outcomes :
           uninstall(scenario.version, source, outcome)
    /\ Advance /\ BuildFrame

LifecycleExit ==
    /\ ~Stage(5)
    /\ Exit
    /\ UNCHANGED scenario /\ BuildFrame

NextLifecycle ==
    \/ LifecycleStart
    \/ LifecycleInstall
    \/ LifecycleActivate
    \/ LifecycleDeactivate
    \/ LifecycleUninstall
    \/ LifecycleUninstallAgain
    \/ LifecycleExit

SpecLifecycle == Init /\ [][NextLifecycle]_vars

(***************************************************************************)
(* Longer active sets: install, uninstall, activate of up to MaxActive      *)
(* version names, deactivate and link, one command at a time.              *)
(***************************************************************************)
LongArgLists == UNION { [1..n -> Names] : n \in 1..MaxActive }

NextLong ==
    \/ \E version \in Names, source \in Sources, outcome \in Outcomes :
           Ready /\ install(version, source, outcome) /\ Frame
    \/ \E version \in Names, source \in Sources, outcome \in Outcomes :
           Ready /\ uninstall(version, source, outcome) /\ Frame
    \/ \E args \in LongArgLists : Ready /\ ActivateStart(1, args) /\ Frame
    \/ Ready /\ deactivate /\ Frame
    \/ \E command \in Commands, force \in BOOLEAN :
           Ready /\ link(command, force) /\ Frame
    \/ ActivatePersist(1) /\ Frame
    \/ ActivatePublish(1) /\ Frame
    \/ Exit /\ Frame

SpecLong == Init /\ [][NextLong]_vars

(***************************************************************************)
(* Two activate commands in a row.  After any commands, a completed        *)
(* activate is taken as the first (scenario.stage 1) and what it left is   *)
(* recorded in once; the second is given the same arguments, or none, and  *)
(* nothing runs in between; its completion is scenario.stage 2.            *)
(***************************************************************************)
TwiceBefore == Stage(0) /\ Next

TwiceFirst ==
    /\ Stage(0)
    /\ AllIdle
    /\ last.cmd = "activate"
    /\ last.exit = 0
    /\ once' = [args |-> last.args, names |-> active_names, dir |-> scripts]
    /\ Advance
    /\ UNCHANGED mainVars /\ UNCHANGED <<definitions, latest_name>>

TwiceExit == Stage(1) /\ Exit /\ Frame

TwiceSecond ==
    /\ Stage(1)
    /\ \/ /\ \E args \in {once.args, <<>>} : Ready /\ ActivateStart(1, args)
          /\ UNCHANGED scenario
       \/ ActivatePersist(1) /\ UNCHANGED scenario
       \/ ActivatePublish(1) /\ Advance
    /\ BuildFrame

NextTwice ==
    \/ TwiceBefore
    \/ TwiceFirst
    \/ TwiceExit
    \/ TwiceSecond

SpecTwice == Init /\ [][NextTwice]_vars

(***************************************************************************)
(* Two invocations of activate at once: nothing (no lock) keeps the steps  *)
(* of one from falling between the steps of the other.  scenario.stage is  *)
(* 0 while the activate last started has run with no other under way, and  *)
(* 1 once one has been started while another was under way.                *)
(***************************************************************************)
\* The version arguments of the two invocations: no version named twice.
ConcArgLists ==
    UNION { { a \in [1..n -> Names] : \A i, j \in 1..n : a[i] = a[j] => i = j } :
            n \in 1..MaxArgs }

ConcStart ==
    /\ \E p \in Invocations, args \in ConcArgLists : ActivateStart(p, args)
    /\ scenario' = [scenario EXCEPT !.stage = IF AllIdle THEN 0 ELSE 1]
    /\ BuildFrame

ConcPersist ==
    /\ \E p \in Invocations : ActivatePersist(p)
    /\ UNCHANGED scenario /\ BuildFrame

ConcPublish ==
    /\ \E p \in Invocations : ActivatePublish(p)
    /\ UNCHANGED scenario /\ BuildFrame

NextConc ==
    \/ ConcStart
    \/ ConcPersist
    \/ ConcPublish

SpecConc == Init /\ [][NextConc]_vars

(***************************************************************************)
(* The installer build: get_latest_python_name over the definition files.  *)
(***************************************************************************)
InitBuild ==
    /\ installation = [n \in Names |-> NotInstalled]
    /\ active_names = <<>>
    /\ scripts = EmptyDir
    /\ linked = {}
    /\ pc = [p \in Invocations |-> "idle"]
    /\ pending = [p \in Invocations |-> <<>>]
    /\ last = NoLog
    /\ scenario = [stage |-> 0, version |-> ""]
    /\ once = NoRun
    /\ BuildInit

NextBuild == get_latest_python_name /\ UNCHANGED <<mainVars, scenario, once>>

SpecBuild == InitBuild /\ [][NextBuild]_vars

(***************************************************************************)
(* What the scripts directory should hold for a list of active names: for  *)
(* each command the script of the first name in the list, installed, that  *)
(* has it.                                                                 *)
(***************************************************************************)
Providers(names, command) ==
    { i \in 1..Len(names) : /\ is_installed(names[i])
                            /\ command \in ScriptNames(names[i]) }

FirstProvider(names, command) ==
    names[CHOOSE i \in Providers(names, command) :
              \A j \in Providers(names, command) : i <= j]

ExpectedEntry(names, command) ==
    IF Providers(names, command) = {} THEN NoFile
    ELSE Content(FirstProvider(names, command), command)

ExpectedDir(names) == [c \in Commands |-> ExpectedEntry(names, c)]

\* A name activate must reject: unknown, or known and not installed.
Rejected(query) ==
    \/ get_version(query) = NotFound
    \/ installation[get_version(query)] = NotInstalled

(***************************************************************************)
(* C1.  Activation is atomic: an activate command given a list of names of *)
(* which at least one does not resolve to a known version, or resolves to  *)
(* one that is not installed, fails (exit code 1), and the persisted       *)
(* active names and the scripts directory are what they were before it:    *)
(* nothing was torn down and nothing was published.                        *)
(***************************************************************************)
C1_ActivateAtomic ==
    [][ ( /\ Ready
          /\ last'.cmd = "activate"
          /\ last'.args # <<>>
          /\ \E i \in 1..Len(last'.args) : Rejected(last'.args[i]) )
        => ( /\ last'.exit = 1
             /\ active_names' = active_names
             /\ scripts' = scripts
             /\ pc' = pc
             /\ last'.events = <<>>
             /\ last'.written = {} ) ]_vars

\* An activate of two names, the first installed and the second not, has
\* failed while a version was active and had scripts published.
C1_Witness ==
    /\ last.cmd = "activate"
    /\ last.exit = 1
    /\ Len(last.args) = 2
    /\ ~Rejected(last.args[1])
    /\ get_version(last.args[2]) # NotFound
    /\ Rejected(last.args[2])
    /\ active_names # <<>>
    /\ Entries(scripts) # {}

(***************************************************************************)
(* C2.  A crash during the rebuild done by activate cannot leave the       *)
(* scripts directory half-built or empty: in a state where the command has *)
(* stopped between two of its steps, the directory is the complete one of  *)
(* the previous active names or the complete one of the new ones.          *)
(***************************************************************************)
C2_NoHalfBuiltNamespace ==
    [][ \A p \in Invocations :
          (pc[p] = "idle" /\ pc'[p] # "idle")
          => \/ scripts' = ExpectedDir(active_names)
             \/ scripts' = ExpectedDir(pending'[p]) ]_vars

(***************************************************************************)
(* C3.  After any sequence of install, uninstall, upgrade, activate,       *)
(* deactivate and link commands, the entries of the scripts directory are  *)
(* exactly the scripts of the active, installed versions, each command     *)
(* name bound to the first active version that has it.                     *)
(***************************************************************************)
C3_NamespaceMatchesActive ==
    AllIdle => scripts = ExpectedDir(active_names)

(***************************************************************************)
(* C4.  Collisions are resolved by priority: after the rebuild done by     *)
(* activate, a command that two active versions have is the script of the  *)
(* one earlier in the active names, and the later one's was skipped, not   *)
(* written.                                                                *)
(***************************************************************************)
C4_FirstActiveWins ==
    (last.cmd = "activate" /\ last.exit = 0)
    => \A i, j \in 1..Len(active_names) :
         \A c \in ScriptNames(active_names[i]) \cap ScriptNames(active_names[j]) :
           i < j =>
             /\ scripts[c] = Content(FirstProvider(active_names, c), c)
             /\ <<active_names[j], c>> \in last.written
                  => active_names[j] = FirstProvider(active_names, c)

\* Two different versions with different pip scripts have been activated.
C4_Witness ==
    /\ last.cmd = "activate"
    /\ last.exit = 0
    /\ Len(active_names) = 2
    /\ Content(active_names[1], "pip") # Content(active_names[2], "pip")
    /\ scripts["pip"] = Content(active_names[1], "pip")

C6_DifferingTarget ==
    [][ ( /\ Ready
          /\ last'.cmd = "link"
          /\ Providers(active_names, last'.args[1]) # {}
          /\ scripts[last'.args[1]] # NoFile
          /\ scripts[last'.args[1]] # ExpectedEntry(active_names, last'.args[1]) )
        => IF last'.force
           THEN /\ last'.exit = 0
                /\ scripts' = [scripts EXCEPT ![last'.args[1]] =
                                 ExpectedEntry(active_names, last'.args[1])]
           ELSE /\ last'.exit = 1
                /\ last'.error = "ConflictError"
                /\ scripts' = scripts ]_vars

\* link without --force has met a target with other bytes.
C6_Witness ==
    /\ last.cmd = "link"
    /\ ~last.force
    /\ last.error = "ConflictError"
    /\ scripts[last.args[1]] # NoFile
    /\ Providers(active_names, last.args[1]) # {}
    /\ scripts[last.args[1]] # ExpectedEntry(active_names, last.args[1])

(***************************************************************************)
(* C7.  The end-to-end run install V, activate V, deactivate, uninstall V, *)
(* uninstall V: after the install V is installed; after the activate the   *)
(* scripts directory holds all of V's scripts; after the deactivate it is  *)
(* empty; after the first uninstall V is not installed; the second         *)
(* uninstall is rejected with StateMismatchError and runs no uninstaller.  *)
(***************************************************************************)
C7_Lifecycle ==
    LET v == scenario.version IN
    /\ Stage(1) => installation[v] # NotInstalled
    /\ Stage(2) => /\ \A c \in ScriptNames(v) : scripts[c] = Content(v, c)
                   /\ Entries(scripts) = ScriptNames(v)
    /\ Stage(3) => Entries(scripts) = {}
    /\ Stage(4) => installation[v] = NotInstalled
    /\ Stage(5) => /\ installation[v] = NotInstalled
                   /\ last.cmd = "uninstall"
                   /\ last.exit = 1
                   /\ last.error = "StateMismatchError"
                   /\ \A i \in 1..Len(last.events) : last.events[i] # "uninstaller"

\* The run has reached its end: the second uninstall has been rejected.
C7_Witness ==
    /\ Stage(5)
    /\ last.cmd = "uninstall"
    /\ last.error = "StateMismatchError"
    /\ scenario.version \in Names

(***************************************************************************)
(* C8.  upgrade of an installed version whose installed version tuple is   *)
(* lexicographically at least the catalog's runs no installer and no       *)
(* download, reports up to date, and leaves the install state, the active  *)
(* names and the scripts directory as they were; an installer runs only    *)
(* when the installed tuple is strictly smaller.                           *)
(***************************************************************************)
Ran(log, event) == \E i \in 1..Len(log.events) : log.events[i] = event

C8_UpgradeNoOp ==
    [][ ( /\ Ready
          /\ last'.cmd = "upgrade"
          /\ get_version(last'.args[1]) # NotFound
          /\ installation[get_version(last'.args[1])] # NotInstalled )
        => LET v == get_version(last'.args[1]) IN
           IF TupleLess(installation[v], version_info(v))
           THEN ~Ran(last', "up_to_date")
           ELSE /\ ~Ran(last', "installer")
                /\ ~Ran(last', "download")
                /\ Ran(last', "up_to_date")
                /\ last'.exit = 0
                /\ installation' = installation
                /\ active_names' = active_names
                /\ scripts' = scripts ]_vars

\* upgrade has found a version installed at exactly the catalog's tuple.
C8_Witness ==
    /\ last.cmd = "upgrade"
    /\ Ran(last, "up_to_date")
    /\ installation[get_version(last.args[1])] = version_info(get_version(last.args[1]))

(***************************************************************************)
(* C9.  The precondition gate: when install finds the version installed,   *)
(* or uninstall or upgrade find it not installed, the mismatch hook runs   *)
(* exactly once, the command fails with StateMismatchError, no installer   *)
(* or uninstaller runs, and the active names are not modified.             *)
(***************************************************************************)
ExpectsInstalled(cmd) == cmd # "install"

MismatchHook(cmd) == IF cmd = "uninstall" THEN "unlink_commands" ELSE "link_commands"

C9_PreconditionGate ==
    [][ ( /\ Ready
          /\ last'.cmd \in {"install", "uninstall", "upgrade"}
          /\ get_version(last'.args[1]) # NotFound
          /\ (installation[get_version(last'.args[1])] # NotInstalled)
               # ExpectsInstalled(last'.cmd) )
        => ( /\ last'.events = <<"on_exit", MismatchHook(last'.cmd)>>
             /\ last'.exit = 1
             /\ last'.error = "StateMismatchError"
             /\ installation' = installation
             /\ active_names' = active_names
             /\ scripts' = scripts ) ]_vars

\* install has been rejected for a version that is installed and active.
C9_Witness ==
    /\ last.cmd = "install"
    /\ last.error = "StateMismatchError"
    /\ last.events = <<"on_exit", "link_commands">>
    /\ \E i \in 1..Len(active_names) : active_names[i] = get_version(last.args[1])

(***************************************************************************)
(* C10.  Version selection: of definitions with pairwise distinct          *)
(* (version tuple, name length) pairs, the one selected has the            *)
(* lexicographically greatest version tuple and, among those with that     *)
(* tuple, the shortest name.                                               *)
(***************************************************************************)
DistinctKeys(defs) ==
    \A i, j \in 1..Len(defs) :
        i # j => \/ defs[i].version_info # defs[j].version_info
                 \/ Len(defs[i].name) # Len(defs[j].name)

C10_LatestIsNewestThenShortest ==
    (latest_name # "" /\ DistinctKeys(definitions))
    => \E i \in 1..Len(definitions) :
         /\ definitions[i].name = latest_name
         /\ \A j \in 1..Len(definitions) :
              /\ ~TupleLess(definitions[i].version_info,
                            definitions[j].version_info)
              /\ definitions[j].version_info = definitions[i].version_info
                   => Len(definitions[i].name) <= Len(definitions[j].name)

\* The selected definition came after a longer-named one of the same, newest
\* version tuple, and an older version was among the definitions.
C10_Witness ==
    /\ latest_name # ""
    /\ DistinctKeys(definitions)
    /\ Len(definitions) = 3
    /\ \E i, j, k \in 1..3 :
         /\ i < j
         /\ definitions[j].name = latest_name
         /\ definitions[i].version_info = definitions[j].version_info
         /\ Len(definitions[i].name) > Len(definitions[j].name)
         /\ TupleLess(definitions[k].version_info, definitions[j].version_info)

(***************************************************************************)
(* C11.  Activation is idempotent: an activate that follows at once a      *)
(* completed activate, with the same arguments or with none, succeeds and  *)
(* leaves the persisted active names and the scripts directory exactly as  *)
(* the first one left them.                                                *)
(***************************************************************************)
C11_ActivateIdempotent ==
    /\ (Stage(1) /\ AllIdle /\ last.cmd = "activate") => last.exit = 0
    /\ Stage(2) => /\ last.exit = 0
                   /\ active_names = once.names
                   /\ scripts = once.dir

\* A second activate without arguments has completed after a first one that
\* was given two versions with different pip scripts.
C11_Witness ==
    /\ Stage(2)
    /\ last.args = <<>>
    /\ Len(once.args) = 2
    /\ Len(once.names) = 2
    /\ Content(once.names[1], "pip") # Content(once.names[2], "pip")
    /\ Entries(once.dir) # {}

(***************************************************************************)
(* C12.  uninstall of an installed version V persists the previous active  *)
(* names without V: every other name is kept, in the previous relative     *)
(* order, and V is gone; when nothing is left the scripts directory has no *)
(* entry; when V was not active the active names are unchanged.            *)
(***************************************************************************)
\* The positions of names that hold something else than v.
Kept(names, v) == { i \in 1..Len(names) : names[i] # v }

\* The position, among the kept ones, of kept position i.
Rank(names, v, i) == Cardinality({ j \in Kept(names, v) : j <= i })

C12_UninstallRemovesInOrder ==
    [][ ( /\ Ready
          /\ last'.cmd = "uninstall"
          /\ get_version(last'.args[1]) # NotFound
          /\ installation[get_version(last'.args[1])] # NotInstalled )
        => LET v == get_version(last'.args[1]) IN
           /\ Len(active_names') = Cardinality(Kept(active_names, v))
           /\ \A i \in Kept(active_names, v) :
                  active_names'[Rank(active_names, v, i)] = active_names[i]
           /\ active_names' = <<>> => Entries(scripts') = {}
           /\ Kept(active_names, v) = 1..Len(active_names)
                  => active_names' = active_names ]_vars

\* The middle one of three different active versions has been uninstalled:
\* the other two are still active, in their order.
C12_Witness ==
    /\ last.cmd = "uninstall"
    /\ Ran(last, "update_active_versions")
    /\ Len(active_names) = 2
    /\ active_names[1] # active_names[2]
    /\ get_version(last.args[1]) \notin {active_names[1], active_names[2]}
    /\ installation[active_names[1]] # NotInstalled
    /\ installation[active_names[2]] # NotInstalled

(***************************************************************************)
(* C13.  The persisted active names never hold the same version name       *)
(* twice, whatever commands have run, activate with a repeated name or     *)
(* with two queries that resolve to the same version included.             *)
(***************************************************************************)
C13_ActiveNamesUnique ==
    \A i, j \in 1..Len(active_names) :
        active_names[i] = active_names[j] => i = j

(***************************************************************************)
(* C14.  Nothing is retried: an install, uninstall or upgrade command runs *)
(* the installer (uninstaller) at most once; when it has run and failed,   *)
(* leaving the install state as it was, the command ends there with        *)
(* InstallerExecutionError (exit code 1): the failed run is the last thing *)
(* it did, and no command was linked or unlinked.                          *)
(***************************************************************************)
Tool(cmd) == IF cmd = "uninstall" THEN "uninstaller" ELSE "installer"

Times(log, event) ==
    Cardinality({ i \in 1..Len(log.events) : log.events[i] = event })

C14_NoRetry ==
    [][ ( /\ Ready
          /\ last'.cmd \in {"install", "uninstall", "upgrade"} )
        => /\ Times(last', Tool(last'.cmd)) <= 1
           /\ Times(last', "download") <= 1
           /\ ( /\ Ran(last', Tool(last'.cmd))
                /\ installation' = installation )
              => /\ last'.exit = 1
                 /\ last'.error = "InstallerExecutionError"
                 /\ last'.events[Len(last'.events)] = Tool(last'.cmd)
                 /\ ~Ran(last', "link_commands")
                 /\ ~Ran(last', "unlink_commands")
                 /\ linked' = linked ]_vars

\* The installer of an install command, downloaded, has failed.
C14_Witness ==
    /\ last.cmd = "install"
    /\ last.error = "InstallerExecutionError"
    /\ last.events = <<"download", "installer">>
    /\ installation[get_version(last.args[1])] = NotInstalled

(***************************************************************************)
(* C15.  Active implies installed: whenever no command is under way, after *)
(* any install, uninstall, upgrade, activate and deactivate commands whose *)
(* installers succeeded or failed without changing the install state,      *)
(* every persisted active name resolves to a version that is installed.    *)
(***************************************************************************)
C15_ActiveImpliesInstalled ==
    AllIdle => \A i \in 1..Len(active_names) :
                  /\ get_version(active_names[i]) # NotFound
                  /\ is_installed(get_version(active_names[i]))

\* An active version has been uninstalled while another one stays active.
C15_Witness ==
    /\ last.cmd = "uninstall"
    /\ last.exit = 0
    /\ Ran(last, "uninstaller")
    /\ active_names # <<>>
    /\ scripts["tox"] = Content(get_version(last.args[1]), "tox")

(***************************************************************************)
(* C16.  uninstall deactivates before it uninstalls: the version is taken  *)
(* out of the persisted active names before the uninstaller runs, and its  *)
(* commands are unlinked only after the uninstaller has succeeded; when    *)
(* the uninstaller fails, the version is still installed and is not among  *)
(* the active names any more.                                              *)
(***************************************************************************)
\* Event a comes before event b in the log (b did not run, or a ran earlier).
Before(log, a, b) ==
    \A i \in 1..Len(log.events) :
        log.events[i] = b => \E j \in 1..(i - 1) : log.events[j] = a

Active(names, v) == \E i \in 1..Len(names) : names[i] = v

C16_DeactivateThenUninstall ==
    [][ ( /\ Ready
          /\ last'.cmd = "uninstall"
          /\ get_version(last'.args[1]) # NotFound
          /\ installation[get_version(last'.args[1])] # NotInstalled )
        => LET v == get_version(last'.args[1]) IN
           /\ last'.events[1] = "update_active_versions"
           /\ Before(last', "update_active_versions", "uninstaller")
           /\ Before(last', "uninstaller", "unlink_commands")
           /\ ~Active(active_names', v)
           /\ Ran(last', "unlink_commands")
                => /\ installation'[v] = NotInstalled
                   /\ last'.exit = 0
           /\ (Ran(last', "uninstaller") /\ last'.exit # 0)
                => /\ installation'[v] = installation[v]
                   /\ linked' = linked
                   /\ ~Ran(last', "unlink_commands") ]_vars

\* The uninstaller of a version has failed: the version is installed, is not
\* active, and a script of it that no active version has is still published.
C16_Witness ==
    /\ last.cmd = "uninstall"
    /\ last.error = "InstallerExecutionError"
    /\ installation[get_version(last.args[1])] # NotInstalled
    /\ ~Active(active_names, get_version(last.args[1]))
    /\ active_names # <<>>
    /\ \E c \in ScriptNames(get_version(last.args[1])) :
          /\ scripts[c] = Content(get_version(last.args[1]), c)
          /\ \A i \in 1..Len(active_names) :
                c \notin ScriptNames(active_names[i])

(***************************************************************************)
(* C17.  activate without arguments re-activates the persisted active      *)
(* names, all of them and in their order: these are what it tears down,    *)
(* persists again and publishes.  When there is no persisted active name   *)
(* it ends with exit code 1 (no active versions) and has torn down         *)
(* nothing: the active names and the scripts directory are unchanged.      *)
(***************************************************************************)
C17_ActivateNoArguments ==
    [][ /\ ( /\ Ready
             /\ last'.cmd = "activate"
             /\ last'.args = <<>> )
           => IF active_names = <<>>
              THEN /\ last'.exit = 1
                   /\ last'.error = "NoActiveVersions"
                   /\ last'.events = <<>>
                   /\ active_names' = active_names
                   /\ scripts' = scripts
                   /\ pc' = pc
              ELSE (\A i \in 1..Len(active_names) : ~Rejected(active_names[i]))
                   => /\ last'.events = <<"deactivate">>
                      /\ pc'[1] = "deactivated"
                      /\ pending'[1] = active_names
        /\ ( /\ last.cmd = "activate"
             /\ last.args = <<>>
             /\ pc[1] # "idle" )
           => /\ pending'[1] = pending[1] \/ pc'[1] = "idle"
              /\ pc'[1] # "deactivated" => active_names' = pending[1]
              /\ pc'[1] = "idle" => /\ last'.exit = 0
                                    /\ scripts' = ExpectedDir(pending[1]) ]_vars

\* activate without arguments has failed for want of active names, with a
\* version installed that could have been activated.
C17_Witness ==
    /\ last.cmd = "activate"
    /\ last.args = <<>>
    /\ last.exit = 1
    /\ last.error = "NoActiveVersions"
    /\ active_names = <<>>
    /\ \E n \in Names : is_installed(n)

(***************************************************************************)
(* C18.  link of a command publishes the script of the first version, in   *)
(* the order of the active names, that has the command: whatever it writes *)
(* is that version's script, never the script of a later active version or *)
(* of a version that is not active; when no active version has the command *)
(* (no active version at all included) it ends with exit code 1 and the    *)
(* scripts directory is unchanged.                                         *)
(***************************************************************************)
C18_LinkFirstProvider ==
    [][ ( /\ Ready
          /\ last'.cmd = "link" )
        => LET c == last'.args[1] IN
           IF Providers(active_names, c) = {}
           THEN /\ last'.exit = 1
                /\ last'.written = {}
                /\ scripts' = scripts
           ELSE /\ last'.written \subseteq {<<FirstProvider(active_names, c), c>>}
                /\ \/ scripts' = scripts
                   \/ scripts' = [scripts EXCEPT ![c] =
                                    Content(FirstProvider(active_names, c), c)]
                /\ last'.exit = 0
                     => scripts'[c] = Content(FirstProvider(active_names, c), c)
                /\ Ran(last', "publish_script")
                     => scripts'[c] = Content(FirstProvider(active_names, c), c) ]_vars

\* link --force has replaced a script left by a version no longer active
\* with that of the first of two active versions, the second having a
\* different script of that name.
C18_Witness ==
    /\ last.cmd = "link"
    /\ last.exit = 0
    /\ Len(active_names) = 2
    /\ last.written = {<<active_names[1], last.args[1]>>}
    /\ last.args[1] \in ScriptNames(active_names[2])
    /\ Content(active_names[2], last.args[1]) # Content(active_names[1], last.args[1])
    /\ scripts[last.args[1]] = Content(active_names[1], last.args[1])

(***************************************************************************)
(* C19.  Invocations at once are not defended against.  An activate that   *)
(* ran with no other invocation under way ends with the scripts directory  *)
(* matching the persisted active names.  When the steps of two activate    *)
(* invocations given different versions interleave, an end state is        *)
(* reached in which it does not: the directory holds the scripts of a      *)
(* version that is not among the active names.                             *)
(***************************************************************************)
C19_SerialActivateMatches ==
    ( /\ AllIdle
      /\ Stage(0)
      /\ last.cmd = "activate"
      /\ last.exit = 0 )
    => /\ scripts = ExpectedDir(active_names)
       /\ active_names = [i \in 1..Len(last.args) |-> get_version(last.args[i])]

\* Two invocations have interleaved and both have ended: the active names
\* are those of one, and the scripts directory is that of the other, a
\* version that is not active.
C19_Witness ==
    /\ AllIdle
    /\ Stage(1)
    /\ last.exit = 0
    /\ Len(active_names) = 1
    /\ scripts # ExpectedDir(active_names)
    /\ \E n \in Names :
          /\ ~Active(active_names, n)
          /\ scripts = ExpectedDir(<<n>>)
          /\ Entries(scripts) # {}

====
